---- MODULE Spec2Model ----
(***************************************************************************)
(* The external kernel execution layer of src/src/driver/kernel.py:        *)
(* Kernel (descriptor, launcher, synchronous invoker), KernelRun (the      *)
(* asynchronous invocation handle) and KernelWrapper (the call facade),    *)
(* together with the child process and the two OS pipes it talks through.  *)
(*                                                                         *)
(* Text (str and bytes) is a sequence of one-character strings.            *)
(***************************************************************************)
EXTENDS Integers, Sequences, FiniteSets, TLC

(***************************************************************************)
(* Bounds of the model.                                                    *)
(***************************************************************************)
\* Capacity of an OS pipe buffer, in bytes.
PipeCap == 3
\* Number of invocations (run / facade calls) the caller issues.
MaxCalls == 1

(***************************************************************************)
(* Python values.  Every value is a record of the same shape so that any   *)
(* two values can be compared: t is the Python type, n the number of an    *)
(* int / bool / handle, b the characters of a str / bytes.                 *)
(***************************************************************************)
PyNone == [t |-> "None", n |-> 0, b |-> <<>>]
PyBool(x) == [t |-> "bool", n |-> IF x THEN 1 ELSE 0, b |-> <<>>]
PyInt(i) == [t |-> "int", n |-> i, b |-> <<>>]
PyStr(s) == [t |-> "str", n |-> 0, b |-> s]
PyBytes(s) == [t |-> "bytes", n |-> 0, b |-> s]
\* A reference to the KernelRun object that owns process p.
PyKernelRun(p) == [t |-> "KernelRun", n |-> p, b |-> <<>>]

Min(a, b) == IF a <= b THEN a ELSE b

\* s[from..] and s[..upto] of a sequence.
Drop(s, k) == SubSeq(s, k + 1, Len(s))
Take(s, k) == SubSeq(s, 1, k)

(***************************************************************************)
(* json.dumps (default options) on None, bool, int and str, followed by    *)
(* str.encode(): the characters of the JSON document.                      *)
(***************************************************************************)
Digit(d) == CASE d = 0 -> "0" [] d = 1 -> "1" [] d = 2 -> "2" [] d = 3 -> "3"
              [] d = 4 -> "4" [] d = 5 -> "5" [] d = 6 -> "6" [] d = 7 -> "7"
              [] d = 8 -> "8" [] d = 9 -> "9"

RECURSIVE NatToStr(_)
NatToStr(i) == IF i < 10 THEN <<Digit(i)>>
               ELSE NatToStr(i \div 10) \o <<Digit(i % 10)>>

IntToStr(i) == IF i < 0 THEN <<"-">> \o NatToStr(-i) ELSE NatToStr(i)

\* The JSON escape of one character of a str.
EscapeChar(c) == CASE c = "\"" -> <<"\\", "\"">>
                   [] c = "\\" -> <<"\\", "\\">>
                   [] c = "\n" -> <<"\\", "n">>
                   [] OTHER -> <<c>>

RECURSIVE EscapeStr(_)
EscapeStr(s) == IF s = <<>> THEN <<>>
                ELSE EscapeChar(Head(s)) \o EscapeStr(Tail(s))

JsonDumps(v) ==
    CASE v.t = "None" -> <<"n", "u", "l", "l">>
      [] v.t = "bool" -> IF v.n = 1 THEN <<"t", "r", "u", "e">>
                         ELSE <<"f", "a", "l", "s", "e">>
      [] v.t = "int" -> IntToStr(v.n)
      [] v.t = "str" -> <<"\"">> \o EscapeStr(v.b) \o <<"\"">>

(***************************************************************************)
(* Host tools (kernel.py:28-29) and the kernel descriptor.                 *)
(* A text the code only passes along is kept in one piece; a text the code *)
(* slices or scans is kept one character per element.                      *)
(***************************************************************************)
PYTHON == <<"/usr/bin/python3">>
JAVA == <<"/usr/bin/java">>

\* os.path.join(path, entry)
PathJoin(path, entry) == path \o <<"/">> \o entry

\* os.path.basename(path): what follows the last "/".
RECURSIVE Basename(_)
Basename(path) ==
    IF \E i \in 1..Len(path) : path[i] = "/"
    THEN Basename(Tail(path))
    ELSE path

\* The fields Kernel.__init__ sets for directory `path`, entry file `entry`
\* and runtime `lang`.
Descriptor(path, entry, lang) ==
    [name |-> Basename(path),
     dir_path |-> path,
     exe_path |-> PathJoin(path, entry),
     lang |-> lang]

KernelDir == <<"/", "k", "/", "t">>

\* The descriptors of the three kinds of kernel directory.
Descriptors ==
    { Descriptor(KernelDir, <<"m", "a", "i", "n", ".", "p", "y">>, "PYTHON"),
      Descriptor(KernelDir, <<"M", "a", "i", "n", ".", "c", "l", "a", "s", "s">>, "JAVA"),
      Descriptor(KernelDir, <<"m", "a", "i", "n", ".", "o", "u", "t">>, "EXEC") }

\* The extra arguments a caller passes.
ArgLists == { <<>>, <<(<<"-", "v">>)>> }

\* An argument vector whose slice leaves the dot of ".class" on the class name.
ArgvJavaKeepsDot(k, args) ==
    (CASE k.lang = "PYTHON" -> <<PYTHON, k.exe_path>>
       [] k.lang = "JAVA" -> <<JAVA, Take(Basename(k.exe_path),
                                          Len(Basename(k.exe_path)) - 5)>>
       [] k.lang = "EXEC" -> <<k.exe_path>>) \o args

\* Kernel.proc: the argument vector.
Argv(k, args) ==
    (CASE k.lang = "PYTHON" -> <<PYTHON, k.exe_path>>
       [] k.lang = "JAVA" -> <<JAVA, Take(Basename(k.exe_path),
                                          Len(Basename(k.exe_path)) - 6)>>
       [] k.lang = "EXEC" -> <<k.exe_path>>) \o args

(***************************************************************************)
(* The child: a kernel reads its standard input to end of file, writes its *)
(* output and exits.  `behav` is what the kernel's program does: echo its  *)
(* input or write a fixed text, and the status it exits with.              *)
(***************************************************************************)
ExitCodes == {0, 3}

FixedOutputs == { <<"0">>, <<"x">>, <<"n", "u", "l", "l">> }

Behaviours ==
    [echo : {TRUE}, out : {<<>>}, code : ExitCodes]
      \cup [echo : {FALSE}, out : FixedOutputs, code : ExitCodes]

\* What the kernel writes once it has read `input`.
KernelOutput(b, input) == IF b.echo THEN input ELSE b.out

\* The objects handed to the facade and the bytes handed to Kernel.run.
InputObjects ==
    { PyNone, PyInt(12), PyStr(<<"a", "\"">>) }

InputBytes == { <<"0">>, <<"n", "u", "l", "l", "\n">> }

\* Popen.returncode before the exit has been observed (Python's None).
NoCode == -1

VARIABLES
    kernel,     \* the descriptor the facade is bound to
    behav,      \* the kernel's program
    nproc,      \* number of processes launched so far
    procs,      \* procs[p]: the Popen object, its pipes and its child
    runs,       \* runs[p]: the KernelRun object that owns process p
    held,       \* the handles the caller was given (asynchronous calls)
    pc,         \* where the (single-threaded) caller is
    cur,        \* the call the caller is inside
    result,     \* how the last completed call ended
    log,        \* messages given to logger.error
    firstOut,   \* firstOut[p]: what the first successful output of p returned
    host,       \* what Kernel.__init__ finds: the directory listing, the host tools
    prop,       \* a Property object (pianoray/api/props.py)
    pres        \* how the last operation on the property ended

\* The variables of the property model.
propvars == <<prop, pres>>

vars == <<kernel, behav, nproc, procs, runs, held, pc, cur, result, log, firstOut,
          host, prop, pres>>

\* No directory is being resolved, no property exists.
NoHost == [listing |-> <<>>, python |-> TRUE, java |-> TRUE]
NoProp == [cls |-> "none"]
NoPres == [op |-> "none"]

Procs == 1..nproc

NoExc == [type |-> "", args |-> <<>>]
KernelException(args) == [type |-> "KernelException", args |-> args]

Returned(op, p, val) == [op |-> op, p |-> p, kind |-> "return", val |-> val, exc |-> NoExc]
Raised(op, p, exc) == [op |-> op, p |-> p, kind |-> "raise", val |-> PyNone, exc |-> exc]

NoResult == [op |-> "none", p |-> 0, kind |-> "none", val |-> PyNone, exc |-> NoExc]
NoCur == [op |-> "none", p |-> 0, async |-> FALSE]

Init ==
    /\ kernel \in Descriptors
    /\ behav \in Behaviours
    /\ nproc = 0
    /\ procs = <<>>
    /\ runs = <<>>
    /\ held = {}
    /\ pc = "idle"
    /\ cur = NoCur
    /\ result = NoResult
    /\ log = <<>>
    /\ firstOut = <<>>
    /\ host = NoHost
    /\ prop = NoProp
    /\ pres = NoPres

(***************************************************************************)
(* Processes.  procs[p] holds the Popen object (argv, cwd, returncode),    *)
(* the writer on the child's standard input (wbuf: bytes accepted by       *)
(* write() and not yet in the pipe), the two pipes and the child.          *)
(***************************************************************************)
\* Kernel.proc: Popen(pre_args, stdin=PIPE, stdout=PIPE, cwd=self.dir_path).
\* `given` records the value the invocation was called with.
NewProc(k, args, given) ==
    [argv |-> Argv(k, args),
     cwd |-> k.dir_path,
     given |-> given,
     wbuf |-> <<>>,
     stdin |-> <<>>,
     stdinClosed |-> FALSE,
     stdout |-> <<>>,
     cst |-> "reading",
     cin |-> <<>>,
     cout |-> <<>>,
     returncode |-> NoCode,
     nread |-> 0]

\* Popen.poll(): the exit status, or NoCode (None) while the child runs.
Poll(pr) == IF pr.cst = "exited" THEN behav.code ELSE NoCode

\* The Popen object after poll() or wait() has looked at the child.
Polled(pr) == [pr EXCEPT !.returncode = Poll(pr)]

\* utils.readall(stream): everything up to end of stream.
Readall(stream) == stream

\* The bytes the parent has put into the child's input pipe so far.
Sent(pr) == pr.cin \o pr.stdin

\* The child reads what is in its input pipe.
ChildRead(p) ==
    /\ p \in Procs
    /\ procs[p].cst = "reading"
    /\ procs[p].stdin # <<>>
    /\ procs' = [procs EXCEPT ![p].cin = @ \o procs[p].stdin,
                              ![p].stdin = <<>>]
    /\ UNCHANGED <<host, propvars, kernel, behav, nproc, runs, held, pc, cur, result, log, firstOut>>

\* The child sees end of file on its input and computes its output.
ChildEof(p) ==
    /\ p \in Procs
    /\ procs[p].cst = "reading"
    /\ procs[p].stdin = <<>>
    /\ procs[p].stdinClosed
    /\ procs' = [procs EXCEPT ![p].cst = "writing",
                              ![p].cout = KernelOutput(behav, procs[p].cin)]
    /\ UNCHANGED <<host, propvars, kernel, behav, nproc, runs, held, pc, cur, result, log, firstOut>>

\* The child writes to its output pipe: as much as the pipe takes, and it
\* blocks while the pipe is full.
ChildWrite(p) ==
    /\ p \in Procs
    /\ procs[p].cst = "writing"
    /\ procs[p].cout # <<>>
    /\ Len(procs[p].stdout) < PipeCap
    /\ LET k == Min(PipeCap - Len(procs[p].stdout), Len(procs[p].cout))
       IN procs' = [procs EXCEPT ![p].stdout = @ \o Take(procs[p].cout, k),
                                 ![p].cout = Drop(@, k)]
    /\ UNCHANGED <<host, propvars, kernel, behav, nproc, runs, held, pc, cur, result, log, firstOut>>

\* The child has written everything and exits with the kernel's status.
ChildExit(p) ==
    /\ p \in Procs
    /\ procs[p].cst = "writing"
    /\ procs[p].cout = <<>>
    /\ procs' = [procs EXCEPT ![p].cst = "exited"]
    /\ UNCHANGED <<host, propvars, kernel, behav, nproc, runs, held, pc, cur, result, log, firstOut>>

Child(p) == ChildRead(p) \/ ChildEof(p) \/ ChildWrite(p) \/ ChildExit(p)

\* proc.stdin.flush(): the writer moves its bytes into the pipe, as many as
\* the pipe takes at a time, and blocks while the pipe is full.
Flush ==
    /\ pc \in {"run_flush", "init_flush"}
    /\ procs[cur.p].wbuf # <<>>
    /\ Len(procs[cur.p].stdin) < PipeCap
    /\ LET k == Min(PipeCap - Len(procs[cur.p].stdin), Len(procs[cur.p].wbuf))
       IN procs' = [procs EXCEPT ![cur.p].stdin = @ \o Take(procs[cur.p].wbuf, k),
                                 ![cur.p].wbuf = Drop(@, k)]
    /\ UNCHANGED <<host, propvars, kernel, behav, nproc, runs, held, pc, cur, result, log, firstOut>>

(***************************************************************************)
(* Kernel.run: the synchronous invoker.                                    *)
(***************************************************************************)
\* proc = self.proc(args); proc.stdin.write(stdin)
RunStart(data, args) ==
    /\ pc = "idle"
    /\ nproc' = nproc + 1
    /\ procs' = Append(procs, [NewProc(kernel, args, PyBytes(data)) EXCEPT !.wbuf = data])
    /\ pc' = "run_flush"
    /\ cur' = [op |-> "run", p |-> nproc + 1, async |-> FALSE]
    /\ UNCHANGED <<host, propvars, kernel, behav, runs, held, result, log, firstOut>>

\* The caller calls Kernel.run.
RunCall(data, args) == nproc < MaxCalls /\ RunStart(data, args)

\* proc.stdin.flush() has returned; proc.stdin.close()
RunClose ==
    /\ pc = "run_flush"
    /\ procs[cur.p].wbuf = <<>>
    /\ procs' = [procs EXCEPT ![cur.p].stdinClosed = TRUE]
    /\ pc' = "run_wait"
    /\ UNCHANGED <<host, propvars, kernel, behav, nproc, runs, held, cur, result, log, firstOut>>

\* proc.wait() returns once the child has exited.
RunWait ==
    /\ pc = "run_wait"
    /\ procs[cur.p].cst = "exited"
    /\ procs' = [procs EXCEPT ![cur.p] = Polled(@)]
    /\ pc' = "run_check"
    /\ UNCHANGED <<host, propvars, kernel, behav, nproc, runs, held, cur, result, log, firstOut>>

\* A check that takes only a negative status (death by signal) for a failure.
RunFailedOnSignalOnly(returncode) == returncode < 0

\* if proc.returncode != 0
RunFailed(returncode) == returncode # 0

\* logger.error(f"Kernel {self.name} exited with code " "{proc.returncode}"):
\* the second literal is no f-string, it is logged as written.
RunLogMessage(k, returncode) ==
    <<"Kernel ">> \o k.name \o <<" exited with code ", "{proc.returncode}">>

\* raise KernelException()
RunError(k, returncode) == KernelException(<<>>)

\* The exit status is checked; on 0 the output is drained and returned.
RunCheck ==
    /\ pc = "run_check"
    /\ IF RunFailed(procs[cur.p].returncode)
       THEN /\ log' = Append(log, RunLogMessage(kernel, procs[cur.p].returncode))
            /\ result' = Raised("run", cur.p, RunError(kernel, procs[cur.p].returncode))
            /\ UNCHANGED procs
       ELSE /\ result' = Returned("run", cur.p, PyBytes(Readall(procs[cur.p].stdout)))
            /\ procs' = [procs EXCEPT ![cur.p].stdout = <<>>,
                                      ![cur.p].nread = @ + 1]
            /\ UNCHANGED log
    /\ pc' = "idle"
    /\ UNCHANGED <<host, propvars, kernel, behav, nproc, runs, held, cur, firstOut>>

(***************************************************************************)
(* KernelRun: the asynchronous invocation handle.                          *)
(***************************************************************************)
\* A start that writes the JSON document without its newline terminator.
InitInputNoNewline(obj) == JsonDumps(obj)

\* proc.stdin.write(json.dumps(stdin).encode()); proc.stdin.write(b"\n")
InitInput(obj) == JsonDumps(obj) \o <<"\n">>

\* self._output = None; self._read_output = False
NewRun == [_output |-> PyNone, _read_output |-> FALSE]

\* KernelRun.alive
KernelRunAlive(pr) == Poll(pr) # NoCode

\* A guard with the test inverted.
OutputRaisesInverted(pr) == Poll(pr) # NoCode

\* KernelRun.output: if self.proc.poll() is None: raise
OutputRaises(pr) == Poll(pr) = NoCode

StillRunning ==
    KernelException(<<PyStr(<<"Cannot read KernelRun.output while running.">>)>>)

\* KernelRun.output: if not self._read_output
OutputReads(r) == ~r._read_output

\* An output that caches what it read and forgets to set the latch.
RunAfterOutputNoLatch(r, pr) ==
    IF ~r._read_output
    THEN [r EXCEPT !._output = PyBytes(Readall(pr.stdout))]
    ELSE r

\* The KernelRun object after output has got past its guard.
RunAfterOutput(r, pr) ==
    IF OutputReads(r)
    THEN [r EXCEPT !._output = PyBytes(Readall(pr.stdout)), !._read_output = TRUE]
    ELSE r

\* Its process after output has got past its guard.
ProcAfterOutput(r, pr) ==
    IF OutputReads(r)
    THEN [Polled(pr) EXCEPT !.stdout = <<>>, !.nread = @ + 1]
    ELSE Polled(pr)

\* firstOut once output of p has returned val.
FirstOutAfter(p, val) ==
    IF p \in DOMAIN firstOut
    THEN [firstOut EXCEPT ![p].again = TRUE]
    ELSE firstOut @@ (p :> [val |-> val, again |-> FALSE])

\* The property KernelRun.output, read as operation `op`.
OutputBody(op, p) ==
    IF OutputRaises(procs[p])
    THEN /\ result' = Raised(op, p, StillRunning)
         /\ UNCHANGED <<procs, runs, firstOut>>
    ELSE /\ runs' = [runs EXCEPT ![p] = RunAfterOutput(@, procs[p])]
         /\ procs' = [procs EXCEPT ![p] = ProcAfterOutput(runs[p], @)]
         /\ result' = Returned(op, p, runs'[p]._output)
         /\ firstOut' = FirstOutAfter(p, runs'[p]._output)

\* The caller reads handle.alive.
Alive(p) ==
    /\ pc = "idle"
    /\ p \in held
    /\ procs' = [procs EXCEPT ![p] = Polled(@)]
    /\ result' = Returned("alive", p, PyBool(KernelRunAlive(procs[p])))
    /\ UNCHANGED <<host, propvars, kernel, behav, nproc, runs, held, pc, cur, log, firstOut>>

\* The caller enters handle.wait().
WaitCall(p) ==
    /\ pc = "idle"
    /\ p \in held
    /\ pc' = "h_wait"
    /\ cur' = [op |-> "wait", p |-> p, async |-> TRUE]
    /\ UNCHANGED <<host, propvars, kernel, behav, nproc, procs, runs, held, result, log, firstOut>>

\* handle.wait() returns once the child has exited.
WaitReturn ==
    /\ pc = "h_wait"
    /\ procs[cur.p].cst = "exited"
    /\ procs' = [procs EXCEPT ![cur.p] = Polled(@)]
    /\ result' = Returned("wait", cur.p, PyNone)
    /\ pc' = "idle"
    /\ UNCHANGED <<host, propvars, kernel, behav, nproc, runs, held, cur, log, firstOut>>

\* The caller reads handle.output.
Output(p) ==
    /\ pc = "idle"
    /\ p \in held
    /\ OutputBody("output", p)
    /\ UNCHANGED <<host, propvars, kernel, behav, nproc, held, pc, cur, log>>

(***************************************************************************)
(* KernelWrapper.__call__: the call facade.                                *)
(***************************************************************************)
\* A start that keeps the process of the previous invocation and writes the
\* new input to it, instead of launching a process.
StartCached(obj, async, args) ==
    /\ pc = "idle"
    /\ IF nproc = 0
       THEN /\ nproc' = 1
            /\ procs' = <<[NewProc(kernel, args, obj) EXCEPT !.wbuf = JsonDumps(obj) \o <<"\n">>]>>
       ELSE /\ nproc' = nproc
            /\ procs' = [procs EXCEPT ![nproc].wbuf = JsonDumps(obj) \o <<"\n">>]
    /\ pc' = "init_flush"
    /\ cur' = [op |-> "call", p |-> nproc', async |-> async]
    /\ UNCHANGED <<host, propvars, kernel, behav, runs, held, result, log, firstOut>>

\* run = KernelRun(self.kernel, obj, args), up to the flush.
Start(obj, async, args) ==
    /\ pc = "idle"
    /\ nproc' = nproc + 1
    /\ procs' = Append(procs, [NewProc(kernel, args, obj) EXCEPT !.wbuf = InitInput(obj)])
    /\ pc' = "init_flush"
    /\ cur' = [op |-> "call", p |-> nproc + 1, async |-> async]
    /\ UNCHANGED <<host, propvars, kernel, behav, runs, held, result, log, firstOut>>

\* The caller calls the facade.
Call(obj, async, args) == nproc < MaxCalls /\ Start(obj, async, args)

\* The flush has returned: proc.stdin.close(), the KernelRun fields are set,
\* and with async_ the facade returns the handle.
InitClose ==
    /\ pc = "init_flush"
    /\ procs[cur.p].wbuf = <<>>
    /\ procs' = [procs EXCEPT ![cur.p].stdinClosed = TRUE]
    /\ runs' = runs @@ (cur.p :> NewRun)
    /\ IF cur.async
       THEN /\ result' = Returned("call_async", cur.p, PyKernelRun(cur.p))
            /\ held' = held \cup {cur.p}
            /\ pc' = "idle"
       ELSE /\ pc' = "call_wait"
            /\ UNCHANGED <<result, held>>
    /\ UNCHANGED <<host, propvars, kernel, behav, nproc, cur, log, firstOut>>

\* Without async_: run.wait() returns once the child has exited, and the
\* facade returns run.output.
CallFinish ==
    /\ pc = "call_wait"
    /\ procs[cur.p].cst = "exited"
    /\ OutputBody("call", cur.p)
    /\ pc' = "idle"
    /\ UNCHANGED <<host, propvars, kernel, behav, nproc, held, cur, log>>

Next ==
    \/ \E data \in InputBytes, args \in ArgLists : RunCall(data, args)
    \/ Flush
    \/ RunClose
    \/ RunWait
    \/ RunCheck
    \/ \E obj \in InputObjects, async \in BOOLEAN, args \in ArgLists : Call(obj, async, args)
    \/ InitClose
    \/ CallFinish
    \/ \E p \in held : Alive(p)
    \/ \E p \in held : WaitCall(p)
    \/ WaitReturn
    \/ \E p \in held : Output(p)
    \/ \E p \in Procs : ChildRead(p)
    \/ \E p \in Procs : ChildEof(p)
    \/ \E p \in Procs : ChildWrite(p)
    \/ \E p \in Procs : ChildExit(p)

Spec == Init /\ [][Next]_vars

(***************************************************************************)
(* Properties.                                                             *)
(***************************************************************************)

\* C1: reading output of a handle whose child has not exited fails with the
\* StillRunning error, reads nothing from the child's output stream and
\* leaves the handle (cache and latch) as it was; reading it once the child
\* has exited returns.
C1_OutputWhileRunning ==
    [][\A p \in held :
          /\ (Output(p) /\ procs[p].cst # "exited") =>
                /\ result' = Raised("output", p, StillRunning)
                /\ procs'[p] = procs[p]
                /\ runs' = runs
          /\ (Output(p) /\ procs[p].cst = "exited") => result'.kind = "return"
      ]_vars

\* An output has just failed with StillRunning, the child still runs and
\* its stream was not read.
C1_Witness ==
    /\ result.op = "output"
    /\ result.kind = "raise"
    /\ result.exc = StillRunning
    /\ procs[result.p].cst # "exited"
    /\ procs[result.p].nread = 0
    /\ ~runs[result.p]._read_output

\* C2: the output stream of a handle is drained at most once, and every
\* output that returns gives the value the first one gave.
C2_DrainedOnce ==
    /\ \A p \in DOMAIN runs : procs[p].nread <= 1
    /\ \A p \in DOMAIN firstOut :
          /\ runs[p]._read_output
          /\ runs[p]._output = firstOut[p].val
    /\ (result.op = "output" /\ result.kind = "return") =>
          result.val = firstOut[result.p].val

\* output has returned a second time on a handle whose child wrote something.
C2_Witness ==
    /\ result.op = "output"
    /\ result.kind = "return"
    /\ firstOut[result.p].again
    /\ firstOut[result.p].val.b # <<>>

\* C3: alive is true exactly when the child has not yet exited.
\* (returncode is set by the poll inside alive, and only once the child has
\* exited.)
C3_AliveIffRunning ==
    result.op = "alive" =>
        result.val = PyBool(procs[result.p].returncode = NoCode)

\* C4: Kernel.run never stalls: while the call is in progress, the caller or
\* the child can take a step.
C4_RunNeverStalls ==
    (cur.op = "run" /\ pc # "idle") =>
        ENABLED (Flush \/ RunClose \/ RunWait \/ RunCheck \/ Child(cur.p))

\* C5: Kernel.run reads the child's output only after it has seen exit
\* status 0; when the child exits with another status the call raises
\* KernelException and the output stream has not been read.
C5_RunFailsWithoutReading ==
    /\ \A p \in Procs \ DOMAIN runs :
          procs[p].nread > 0 => procs[p].returncode = 0
    /\ (result.op = "run" /\ behav.code # 0) =>
          /\ result.kind = "raise"
          /\ result.exc.type = "KernelException"
          /\ procs[result.p].nread = 0

\* Kernel.run has raised although the child had written output.
C5_Witness ==
    /\ result.op = "run"
    /\ result.kind = "raise"
    /\ procs[result.p].stdout # <<>>

(***************************************************************************)
(* JSON decoding (json.loads) of None, bool, int and str documents: what   *)
(* the specification expects the facade and the handle to apply to the     *)
(* child's output.  JsonError stands for the decoder's failure.            *)
(***************************************************************************)
JsonError == [t |-> "JSONDecodeError", n |-> 0, b |-> <<>>]

IsWs(c) == c \in {" ", "\n", "\t", "\r"}

RECURSIVE StripLeft(_)
StripLeft(s) == IF s # <<>> /\ IsWs(Head(s)) THEN StripLeft(Tail(s)) ELSE s

RECURSIVE StripRight(_)
StripRight(s) ==
    IF s # <<>> /\ IsWs(s[Len(s)]) THEN StripRight(Take(s, Len(s) - 1)) ELSE s

Digits == {"0", "1", "2", "3", "4", "5", "6", "7", "8", "9"}

DigitVal(c) == CHOOSE d \in 0..9 : Digit(d) = c

RECURSIVE DigitsVal(_)
DigitsVal(s) == IF s = <<>> THEN 0
                ELSE 10 * DigitsVal(Take(s, Len(s) - 1)) + DigitVal(s[Len(s)])

\* A JSON integer without sign: digits, no leading zero.
IsJsonNat(s) ==
    /\ s # <<>>
    /\ \A i \in 1..Len(s) : s[i] \in Digits
    /\ (Len(s) > 1 => s[1] # "0")

\* The characters a JSON string body stands for; ok says whether the body
\* is well formed.
RECURSIVE Unescape(_)
Unescape(s) ==
    IF s = <<>> THEN [ok |-> TRUE, b |-> <<>>]
    ELSE IF Head(s) = "\\"
    THEN IF Len(s) < 2 \/ s[2] \notin {"\"", "\\", "/", "n", "t", "r"}
         THEN [ok |-> FALSE, b |-> <<>>]
         ELSE LET rest == Unescape(Drop(s, 2))
                  c == CASE s[2] = "n" -> "\n"
                         [] s[2] = "t" -> "\t"
                         [] s[2] = "r" -> "\r"
                         [] OTHER -> s[2]
              IN [ok |-> rest.ok, b |-> <<c>> \o rest.b]
    ELSE IF Head(s) \in {"\"", "\n", "\t", "\r"}
    THEN [ok |-> FALSE, b |-> <<>>]
    ELSE LET rest == Unescape(Tail(s))
         IN [ok |-> rest.ok, b |-> <<Head(s)>> \o rest.b]

JsonLoads(bytes) ==
    LET s == StripRight(StripLeft(bytes))
    IN CASE s = <<"n", "u", "l", "l">> -> PyNone
         [] s = <<"t", "r", "u", "e">> -> PyBool(TRUE)
         [] s = <<"f", "a", "l", "s", "e">> -> PyBool(FALSE)
         [] IsJsonNat(s) -> PyInt(DigitsVal(s))
         [] Len(s) > 1 /\ s[1] = "-" /\ IsJsonNat(Tail(s)) -> PyInt(-DigitsVal(Tail(s)))
         [] Len(s) > 1 /\ s[1] = "\"" /\ s[Len(s)] = "\""
              /\ Unescape(SubSeq(s, 2, Len(s) - 1)).ok ->
                PyStr(Unescape(SubSeq(s, 2, Len(s) - 1)).b)
         [] OTHER -> JsonError

\* C6: a synchronous facade call on a kernel that exits with a non-zero
\* status fails with the kernel-execution error, whatever the kernel wrote.
C6_FacadeFailsOnNonZero ==
    (result.op = "call" /\ behav.code # 0) =>
        /\ result.kind = "raise"
        /\ result.exc.type = "KernelException"

\* C7: the error Kernel.run raises for a non-zero exit carries the kernel's
\* name and the child's exit code.
C7_ErrorCarriesNameAndCode ==
    (result.op = "run" /\ result.kind = "raise") =>
        /\ \E i \in DOMAIN result.exc.args :
              result.exc.args[i] = PyStr(kernel.name)
        /\ \E i \in DOMAIN result.exc.args :
              result.exc.args[i] = PyInt(procs[result.p].returncode)

\* C8: round trip: a synchronous facade call on a kernel that echoes its
\* input and exits 0 returns the object it was called with.
C8_RoundTrip ==
    (result.op = "call" /\ behav.echo /\ behav.code = 0) =>
        /\ result.kind = "return"
        /\ result.val = procs[result.p].given

\* C9: output of a handle whose child has exited returns the JSON decoding
\* of the bytes the child wrote, and fails with MalformedOutput when they
\* are no JSON document.  (returncode is set by the poll inside output, and
\* only once the child has exited.)
C9_OutputDecoded ==
    (result.op = "output" /\ procs[result.p].returncode # NoCode) =>
        LET decoded == JsonLoads(KernelOutput(behav, procs[result.p].cin))
        IN IF decoded = JsonError
           THEN result.kind = "raise"
           ELSE result.kind = "return" /\ result.val = decoded

\* The bytes an invocation has to write to the child: Kernel.run is given
\* them, the handle is given an object.
ExpectedInput(given) ==
    IF given.t = "bytes" THEN given.b ELSE JsonDumps(given) \o <<"\n">>

\* The caller is waiting for p's exit, has seen it, or has read p's output.
WaitedOrRead(p) ==
    \/ cur.p = p /\ pc \in {"run_wait", "run_check", "call_wait", "h_wait"}
    \/ procs[p].returncode # NoCode
    \/ procs[p].nread > 0
    \/ p \in DOMAIN runs

\* C10: half duplex: before the caller waits for the exit of a child or reads
\* its output, the whole input is in the child's input stream and the
\* stream is closed; for a handle the input is the JSON encoding of the
\* object followed by one newline.
C10_HalfDuplex ==
    \A p \in Procs :
        WaitedOrRead(p) =>
            /\ procs[p].stdinClosed
            /\ procs[p].wbuf = <<>>
            /\ Sent(procs[p]) = ExpectedInput(procs[p].given)
            /\ (p \in DOMAIN runs =>
                  /\ JsonLoads(Sent(procs[p])) = procs[p].given
                  /\ Cardinality({i \in DOMAIN Sent(procs[p]) :
                                      Sent(procs[p])[i] = "\n"}) = 1)

\* The output of a child has been read whose input was larger than the pipe.
C10_Witness ==
    \E p \in Procs :
        /\ procs[p].nread > 0
        /\ Len(Sent(procs[p])) > PipeCap

(***************************************************************************)
(* Fan-out: a caller that starts FanOut kernels asynchronously through the *)
(* facade, waits on the handles in reverse start order, and then reads     *)
(* their outputs.                                                          *)
(***************************************************************************)
FanOut == 3

\* The caller starts the next kernel, without extra arguments.
FanStart(obj) == nproc < FanOut /\ Start(obj, TRUE, <<>>)

\* The handles whose exit the caller has not seen yet.
Unwaited == {p \in held : procs[p].returncode = NoCode}

\* All kernels are started: the caller waits on the last handle it has not
\* waited on yet.
FanWait(p) ==
    /\ held = 1..FanOut
    /\ p \in Unwaited
    /\ \A q \in Unwaited : q <= p
    /\ WaitCall(p)

\* All handles are waited on: the caller reads an output.
FanOutput(p) ==
    /\ held = 1..FanOut
    /\ Unwaited = {}
    /\ Output(p)

\* A step of the caller.
FanCaller ==
    \/ \E obj \in InputObjects : FanStart(obj)
    \/ Flush
    \/ InitClose
    \/ \E p \in held : FanWait(p)
    \/ WaitReturn
    \/ \E p \in held : FanOutput(p)

FanNext ==
    \/ \E obj \in InputObjects : FanStart(obj)
    \/ Flush
    \/ InitClose
    \/ \E p \in held : FanWait(p)
    \/ WaitReturn
    \/ \E p \in held : FanOutput(p)
    \/ \E p \in Procs : ChildRead(p)
    \/ \E p \in Procs : ChildEof(p)
    \/ \E p \in Procs : ChildWrite(p)
    \/ \E p \in Procs : ChildExit(p)

\* The operating system schedules every child that can run, and the caller
\* goes on whenever it is not blocked.
SpecFan ==
    /\ Init
    /\ [][FanNext]_vars
    /\ WF_vars(FanCaller)
    /\ \A p \in 1..FanOut : WF_vars(Child(p))

\* C11: FanOut kernels started asynchronously and waited on in reverse start
\* order all reach Exited, and the output of each handle is what its own
\* kernel wrote.
C11_FanOutCompletes ==
    /\ <>(nproc = FanOut /\ \A p \in 1..FanOut : procs[p].cst = "exited")
    /\ [](\A p \in DOMAIN firstOut :
             firstOut[p].val = PyBytes(KernelOutput(behav, procs[p].cin)))

(***************************************************************************)
(* A caller that issues SeqCalls invocations of any style (Kernel.run, the *)
(* facade with and without async_) on one descriptor, and uses the handles *)
(* it holds freely in between.                                             *)
(***************************************************************************)
SeqCalls == 2

SeqObjects == { PyInt(12) }
SeqBytes == { <<"0">> }

SeqRun(data) == nproc < SeqCalls /\ RunStart(data, <<>>)
SeqCall(obj, async) == nproc < SeqCalls /\ Start(obj, async, <<>>)

SeqNext ==
    \/ \E data \in SeqBytes : SeqRun(data)
    \/ Flush
    \/ RunClose
    \/ RunWait
    \/ RunCheck
    \/ \E obj \in SeqObjects, async \in BOOLEAN : SeqCall(obj, async)
    \/ InitClose
    \/ CallFinish
    \/ \E p \in held : Alive(p)
    \/ \E p \in held : WaitCall(p)
    \/ WaitReturn
    \/ \E p \in held : Output(p)
    \/ \E p \in Procs : ChildRead(p)
    \/ \E p \in Procs : ChildEof(p)
    \/ \E p \in Procs : ChildWrite(p)
    \/ \E p \in Procs : ChildExit(p)

SpecSeq == Init /\ [][SeqNext]_vars

\* The caller enters an invocation in this step.
Invokes == pc = "idle" /\ pc' \in {"run_flush", "init_flush"}

\* C12: every invocation launches a process of its own: the step that enters
\* an invocation adds one process, with empty pipes and a running child,
\* binds the invocation to it and leaves every earlier process and handle
\* as it was; a new handle never takes a process that has a handle; and no
\* step changes the descriptor.
C12_FreshProcess ==
    [][/\ kernel' = kernel
       /\ Invokes =>
            /\ nproc' = nproc + 1
            /\ cur'.p = nproc'
            /\ \A p \in Procs : procs'[p] = procs[p]
            /\ procs'[nproc'].stdin = <<>>
            /\ procs'[nproc'].stdout = <<>>
            /\ ~procs'[nproc'].stdinClosed
            /\ procs'[nproc'].cst = "reading"
            /\ procs'[nproc'].returncode = NoCode
            /\ runs' = runs
       /\ ~Invokes => nproc' = nproc
       /\ DOMAIN runs' # DOMAIN runs =>
            /\ cur.p \notin DOMAIN runs
            /\ DOMAIN runs' = DOMAIN runs \cup {cur.p}
      ]_vars

\* Two invocations have been made on the descriptor, one through Kernel.run
\* that has ended and one through the facade whose handle exists.
C12_Witness ==
    \E p, q \in Procs :
        /\ p \in DOMAIN runs
        /\ q \notin DOMAIN runs
        /\ procs[q].returncode # NoCode

(***************************************************************************)
(* Kernel.__init__: descriptor resolution.  host.listing is what           *)
(* os.listdir returns for the directory, in the order it returns it;       *)
(* host.python and host.java say whether shutil.which found the tool.      *)
(***************************************************************************)
UpperCase == <<"A", "B", "C", "D", "E", "F", "G", "H", "I", "J", "K", "L", "M",
               "N", "O", "P", "Q", "R", "S", "T", "U", "V", "W", "X", "Y", "Z">>
LowerCase == <<"a", "b", "c", "d", "e", "f", "g", "h", "i", "j", "k", "l", "m",
               "n", "o", "p", "q", "r", "s", "t", "u", "v", "w", "x", "y", "z">>

\* str.lower() on one character and on a text.
LowerChar(c) ==
    IF \E i \in 1..26 : UpperCase[i] = c
    THEN LowerCase[CHOOSE i \in 1..26 : UpperCase[i] = c]
    ELSE c

LowerStr(s) == [i \in 1..Len(s) |-> LowerChar(s[i])]

\* s.startswith(prefix)
StartsWith(s, prefix) == Len(s) >= Len(prefix) /\ Take(s, Len(prefix)) = prefix

\* A test for the entry file that forgets lower().
IsMainCaseSensitive(s) == StartsWith(s, <<"m", "a", "i", "n">>)

\* lambda s: s.lower().startswith("main")
IsMain(s) == StartsWith(LowerStr(s), <<"m", "a", "i", "n">>)

\* filter(lambda ..., os.listdir(path))
MainFiles(listing) == SelectSeq(listing, IsMain)

\* entry.split(".")[-1]: what follows the last ".", the whole entry if it
\* has none.
RECURSIVE Ext(_)
Ext(entry) ==
    IF \E i \in 1..Len(entry) : entry[i] = "."
    THEN Ext(Tail(entry))
    ELSE entry

NoMainFile == KernelException(<<PyStr(<<"Kernel directory has no main file.">>)>>)
PythonNotFound == KernelException(<<PyStr(<<"python3 not found.">>)>>)
JavaNotFound == KernelException(<<PyStr(<<"java not found.">>)>>)
InvalidFileEnding(ext) == KernelException(<<PyStr(<<"Invalid file ending: ">> \o ext)>>)

\* A check for java that looks at PYTHON.
JavaMissingLooksAtPython(h) == ~h.python

\* if not PYTHON / if not JAVA
PythonMissing(h) == ~h.python
JavaMissing(h) == ~h.java

\* next(files) that takes the last entry of the filter instead of the first.
NextFileLast(files) == files[Len(files)]

\* entry = next(files)
NextFile(files) == Head(files)

KernelFailed(exc) == [ok |-> FALSE, exc |-> exc, kernel |-> [lang |-> "none"]]
KernelMade(k) == [ok |-> TRUE, exc |-> NoExc, kernel |-> k]

\* Kernel(path) on a host: the exception it raises or the object it makes.
KernelInit(path, h) ==
    LET files == MainFiles(h.listing)
    IN IF files = <<>> THEN KernelFailed(NoMainFile)
       ELSE LET entry == NextFile(files)
                ext == Ext(entry)
            IN IF ext = <<"p", "y">>
               THEN IF PythonMissing(h) THEN KernelFailed(PythonNotFound)
                    ELSE KernelMade(Descriptor(path, entry, "PYTHON"))
               ELSE IF ext = <<"c", "l", "a", "s", "s">>
               THEN IF JavaMissing(h) THEN KernelFailed(JavaNotFound)
                    ELSE KernelMade(Descriptor(path, entry, "JAVA"))
               ELSE IF ext = <<"o", "u", "t">>
               THEN KernelMade(Descriptor(path, entry, "EXEC"))
               ELSE KernelFailed(InvalidFileEnding(ext))

\* The names a kernel directory may hold.
EntryNames ==
    { <<"m", "a", "i", "n", ".", "p", "y">>,
      <<"M", "a", "i", "n", ".", "c", "l", "a", "s", "s">>,
      <<"m", "a", "i", "n", ".", "o", "u", "t">>,
      <<"M", "A", "I", "N", ".", "P", "Y">>,
      <<"m", "a", "i", "n", ".", "t", "x", "t">>,
      <<"m", "a", "i", "n">>,
      <<"r", "u", "n", ".", "p", "y">> }

\* Number of entries of a kernel directory.
MaxEntries == 2

\* The listings: no name twice, any order.
Listings ==
    { l \in UNION { [1..n -> EntryNames] : n \in 0..MaxEntries } :
        \A i, j \in DOMAIN l : i # j => l[i] # l[j] }

Hosts == [listing : Listings, python : BOOLEAN, java : BOOLEAN]

\* The extra arguments given to Kernel.proc.
LaunchArgLists ==
    { <<>>, <<(<<"-", "v">>)>>,
      <<(<<"-", "v">>), (<<"x">>)>>, <<(<<"x">>), (<<"-", "v">>)>> }

NoKernel == [name |-> <<>>, dir_path |-> <<>>, exe_path |-> <<>>, lang |-> "none"]

ResolveInit ==
    /\ host \in Hosts
    /\ kernel = NoKernel
    /\ behav \in {b \in Behaviours : b.echo /\ b.code = 0}
    /\ nproc = 0
    /\ procs = <<>>
    /\ runs = <<>>
    /\ held = {}
    /\ pc = "new"
    /\ cur = NoCur
    /\ result = NoResult
    /\ log = <<>>
    /\ firstOut = <<>>
    /\ prop = NoProp
    /\ pres = NoPres

\* kernel = Kernel(path)
Resolve ==
    /\ pc = "new"
    /\ LET r == KernelInit(KernelDir, host)
       IN IF r.ok
          THEN /\ kernel' = r.kernel
               /\ result' = Returned("Kernel", 0, PyNone)
               /\ pc' = "idle"
          ELSE /\ result' = Raised("Kernel", 0, r.exc)
               /\ pc' = "failed"
               /\ UNCHANGED kernel
    /\ UNCHANGED <<host, propvars, behav, nproc, procs, runs, held, cur, log, firstOut>>

\* proc = kernel.proc(args)
Launch(args) ==
    /\ pc = "idle"
    /\ nproc = 0
    /\ nproc' = nproc + 1
    /\ procs' = Append(procs, NewProc(kernel, args, PyNone))
    /\ cur' = [op |-> "proc", p |-> nproc + 1, async |-> FALSE, args |-> args]
    /\ UNCHANGED <<host, propvars, kernel, behav, runs, held, pc, result, log, firstOut>>

ResolveNext ==
    \/ Resolve
    \/ \E args \in LaunchArgLists : Launch(args)

SpecResolve == ResolveInit /\ [][ResolveNext]_vars

(***************************************************************************)
(* Properties of descriptor resolution and of the launcher.                *)
(***************************************************************************)
\* The entry begins, case-insensitively, with "main".
BeginsWithMain(e) ==
    /\ Len(e) >= 4
    /\ \A i \in 1..4 : LowerChar(e[i]) = (<<"m", "a", "i", "n">>)[i]

HasSuffix(e, suffix) ==
    /\ Len(e) >= Len(suffix)
    /\ \A i \in 1..Len(suffix) : e[Len(e) - Len(suffix) + i] = suffix[i]

DotPy == <<".", "p", "y">>
DotClass == <<".", "c", "l", "a", "s", "s">>
DotOut == <<".", "o", "u", "t">>

Supported(e) == HasSuffix(e, DotPy) \/ HasSuffix(e, DotClass) \/ HasSuffix(e, DotOut)

\* The runtime an entry's extension maps to, and whether the host has its tool.
RuntimeOf(e) ==
    IF HasSuffix(e, DotPy) THEN "PYTHON"
    ELSE IF HasSuffix(e, DotClass) THEN "JAVA"
    ELSE "EXEC"

ToolPresent(e) ==
    /\ HasSuffix(e, DotPy) => host.python
    /\ HasSuffix(e, DotClass) => host.java

MainIndexes == { i \in DOMAIN host.listing : BeginsWithMain(host.listing[i]) }

Resolved == pc \in {"idle", "failed"} /\ result.op = "Kernel"

ResolvedTo(e) ==
    /\ result = Returned("Kernel", 0, PyNone)
    /\ kernel.lang = RuntimeOf(e)
    /\ kernel.exe_path = PathJoin(KernelDir, e)
    /\ kernel.dir_path = KernelDir

\* C13: when the directory has exactly one entry whose name begins
\* case-insensitively with "main", its extension is .py, .class or .out and
\* the tool that extension needs is on the host, resolution succeeds with the
\* runtime of that extension (.py PYTHON, .class JAVA, .out EXEC) and that
\* entry as the entry path.
C13_RuntimeByExtension ==
    Resolved =>
        \A i \in MainIndexes :
            /\ MainIndexes = {i}
            /\ Supported(host.listing[i])
            /\ ToolPresent(host.listing[i])
            => ResolvedTo(host.listing[i])

\* A directory with a run.py beside the one Main.class has been resolved to JAVA.
C13_Witness ==
    /\ Resolved
    /\ Len(host.listing) = 2
    /\ \E i \in MainIndexes :
          /\ MainIndexes = {i}
          /\ HasSuffix(host.listing[i], DotClass)
          /\ kernel.lang = "JAVA"

\* The entry resolution selects: the first, in listing order, that begins
\* with "main".
SelectedIndex == CHOOSE i \in MainIndexes : \A j \in MainIndexes : i <= j

Selected == host.listing[SelectedIndex]

Reorderings ==
    LET n == Len(host.listing)
    IN { [i \in 1..n |-> host.listing[f[i]]] :
           f \in { g \in [1..n -> 1..n] : \A i, j \in 1..n : i # j => g[i] # g[j] } }

SameOutcome(r) ==
    /\ r.ok <=> result.kind = "return"
    /\ r.ok => r.kernel = kernel
    /\ ~r.ok => r.exc = result.exc

\* C15 as stated: whatever order the listing returns the same names in,
\* resolution selects the same entry and ends the same way.
C15_OrderIndependent ==
    Resolved =>
        \A l \in Reorderings : SameOutcome(KernelInit(KernelDir, [host EXCEPT !.listing = l]))

\* C15, amended: resolution selects the first entry, in the order of the
\* listing, that begins case-insensitively with "main", and its outcome is
\* that of this entry alone: any listing of the same names whose first such
\* entry is the same one resolves the same way.
C15_FirstInListingOrder ==
    Resolved /\ MainIndexes # {} =>
        /\ \A j \in MainIndexes : SelectedIndex <= j
        /\ result.kind = "return" => ResolvedTo(Selected)
        /\ result.kind = "return" <=> Supported(Selected) /\ ToolPresent(Selected)
        /\ \A l \in Reorderings :
              (\E i \in 1..Len(l) :
                  /\ l[i] = Selected
                  /\ \A j \in 1..(i - 1) : ~BeginsWithMain(l[j]))
              => SameOutcome(KernelInit(KernelDir, [host EXCEPT !.listing = l]))

\* main.out listed before main.py has been resolved to EXEC.
C15_Witness ==
    /\ Resolved
    /\ Len(MainFiles(host.listing)) = 2
    /\ HasSuffix(host.listing[1], DotOut)
    /\ HasSuffix(host.listing[2], DotPy)
    /\ host.python
    /\ kernel.lang = "EXEC"

\* C16: the entry point is recognised whatever the case of its name: a
\* directory whose one "main" entry is main.py, main.class or main.out in any
\* mix of upper and lower case resolves to the runtime of that extension.
C16_CaseInsensitiveEntry ==
    Resolved =>
        \A i \in MainIndexes :
            LET e == LowerStr(host.listing[i])
            IN /\ MainIndexes = {i}
               /\ Supported(e)
               /\ ToolPresent(e)
               => /\ result.kind = "return"
                  /\ kernel.lang = RuntimeOf(e)
                  /\ kernel.exe_path = PathJoin(KernelDir, host.listing[i])

\* The class name: the entry without its ".class".
Stem(e) == CHOOSE t \in { Take(e, k) : k \in 0..Len(e) } : t \o DotClass = e

\* C17: the launcher's argument vector is [python3, entryPath] for PYTHON,
\* [java, entry basename without ".class"] for JAVA and [entryPath] for EXEC,
\* followed by the extra arguments in the order given, and the process's
\* working directory is the descriptor's directory.
C17_LauncherArgv ==
    cur.op = "proc" =>
        /\ procs[cur.p].argv =
              (CASE kernel.lang = "PYTHON" -> <<PYTHON, kernel.exe_path>>
                 [] kernel.lang = "JAVA" -> <<JAVA, Stem(Selected)>>
                 [] kernel.lang = "EXEC" -> <<kernel.exe_path>>) \o cur.args
        /\ procs[cur.p].cwd = kernel.dir_path
        /\ kernel.dir_path = KernelDir
        /\ kernel.exe_path = PathJoin(KernelDir, Selected)

\* A JAVA kernel has been launched with two extra arguments.
C17_Witness ==
    /\ cur.op = "proc"
    /\ kernel.lang = "JAVA"
    /\ Len(cur.args) = 2
    /\ cur.args[1] # cur.args[2]

(***************************************************************************)
(* pianoray/api/props.py: Property, BoolProp, IntProp and FloatProp.       *)
(* `prop` is the property object ("none" before one is constructed) and    *)
(* `pres` is how the last call on it ended.  A float is written with the   *)
(* integer it equals.  Keyframe, Interp and interpolate come from modules  *)
(* that are imported by props.py: a keyframe is its frame, value and       *)
(* interp, keyframes are ordered by frame, and the result of interpolate   *)
(* is kept as the call itself.                                             *)
(***************************************************************************)
PyFloat(i) == [t |-> "float", n |-> i, b |-> <<>>]

\* interpolate(k1, k2, frame), unevaluated.
Interpolate(k1, k2, frame) == [t |-> "interpolate", n |-> frame, b |-> <<k1, k2>>]

Keyframe(frame, value, interp) == [frame |-> frame, value |-> value, interp |-> interp]

AssertionError == [type |-> "AssertionError", args |-> <<>>]
TypeError == [type |-> "TypeError", args |-> <<>>]

PropClasses == {"BoolProp", "IntProp", "FloatProp"}

\* self.type(value) for type = bool, int, float.
Type(cls, v) ==
    IF v.t = "interpolate" THEN [t |-> "converted", n |-> 0, b |-> <<cls, v>>]
    ELSE CASE cls = "BoolProp" -> PyBool(v.n # 0)
           [] cls = "IntProp" -> PyInt(v.n)
           [] cls = "FloatProp" -> PyFloat(v.n)

\* supported_interps
SupportedInterps(cls) ==
    IF cls = "BoolProp" THEN {"CONSTANT"} ELSE {"CONSTANT", "LINEAR"}

VerifyReturns(x) == [raises |-> FALSE, val |-> x]
VerifyRaises == [raises |-> TRUE, val |-> FALSE]

\* Property.verify, IntProp.verify, FloatProp.verify.  An order comparison
\* of a number with None raises TypeError.
Verify(pr, value) ==
    IF pr.cls = "BoolProp" THEN VerifyReturns(TRUE)
    ELSE IF pr.min # PyNone /\ value.n < pr.min.n THEN VerifyReturns(FALSE)
    ELSE IF pr.max # PyNone
         THEN IF pr.min = PyNone THEN VerifyRaises
              ELSE IF value.n > pr.min.n THEN VerifyReturns(FALSE)
              ELSE VerifyReturns(TRUE)
    ELSE VerifyReturns(TRUE)

PropOk(pr) == [ok |-> TRUE, exc |-> NoExc, prop |-> pr]
PropFails(exc) == [ok |-> FALSE, exc |-> exc, prop |-> NoProp]

\* `assert self.verify(value)` and then `then`.
AssertVerify(pr, value, then) ==
    IF Verify(pr, value).raises THEN PropFails(TypeError)
    ELSE IF ~Verify(pr, value).val THEN PropFails(AssertionError)
    ELSE PropOk(then)

\* IntProp(min, max, name, desc, default, animatable) and the like.
NewProperty(cls, min, max, default, animatable) ==
    LET pr == [cls |-> cls, min |-> min, max |-> max, animatable |-> animatable,
               default |-> Type(cls, default), keyframes |-> <<>>,
               value |-> Type(cls, default)]
    IN AssertVerify(pr, pr.default, pr)

\* Property.set_value
SetValueOutcome(pr, value) == AssertVerify(pr, value, [pr EXCEPT !.value = value])

\* An animate without its first assertion.
AnimateOutcomeUnguarded(pr, keyframe) ==
    IF keyframe.interp \notin SupportedInterps(pr.cls) THEN PropFails(AssertionError)
    ELSE LET kf == [keyframe EXCEPT !.value = Type(pr.cls, keyframe.value)]
         IN AssertVerify(pr, kf.value,
                         [pr EXCEPT !.keyframes = Append(pr.keyframes, kf)])

\* Property.animate
AnimateOutcome(pr, keyframe) ==
    IF ~pr.animatable THEN PropFails(AssertionError)
    ELSE IF keyframe.interp \notin SupportedInterps(pr.cls) THEN PropFails(AssertionError)
    ELSE LET kf == [keyframe EXCEPT !.value = Type(pr.cls, keyframe.value)]
         IN AssertVerify(pr, kf.value,
                         [pr EXCEPT !.keyframes = Append(pr.keyframes, kf)])

\* sorted(self._keyframes): by frame, keyframes of one frame staying in the
\* order they were added.
RECURSIVE Sorted(_)
Sorted(keyframes) ==
    IF keyframes = <<>> THEN <<>>
    ELSE LET n == Len(keyframes)
             k == keyframes[n]
             rest == Sorted(Take(keyframes, n - 1))
             before == SelectSeq(rest, LAMBDA x : x.frame <= k.frame)
             after == SelectSeq(rest, LAMBDA x : x.frame > k.frame)
         IN before \o <<k>> \o after

\* A _get_value that hands the two keyframes to interpolate the wrong way round.
GetValueSwappedPair(pr, frame) ==
    LET keys == Sorted(pr.keyframes)
    IN IF Len(keys) = 0 THEN pr.value
       ELSE IF Len(keys) = 1 THEN keys[1].value
       ELSE IF frame <= keys[1].frame THEN keys[1].value
       ELSE IF frame >= keys[Len(keys)].frame THEN keys[Len(keys)].value
       ELSE LET i == CHOOSE i \in 1..Len(keys) :
                        /\ keys[i].frame >= frame
                        /\ \A j \in 1..(i - 1) : keys[j].frame < frame
            IN IF keys[i].frame = frame THEN keys[i].value
               ELSE Interpolate(keys[i], keys[i - 1], frame)

\* Property._get_value
GetValue(pr, frame) ==
    LET keys == Sorted(pr.keyframes)
    IN IF Len(keys) = 0 THEN pr.value
       ELSE IF Len(keys) = 1 THEN keys[1].value
       ELSE IF frame <= keys[1].frame THEN keys[1].value
       ELSE IF frame >= keys[Len(keys)].frame THEN keys[Len(keys)].value
       ELSE LET i == CHOOSE i \in 1..Len(keys) :
                        /\ keys[i].frame >= frame
                        /\ \A j \in 1..(i - 1) : keys[j].frame < frame
            IN IF keys[i].frame = frame THEN keys[i].value
               ELSE Interpolate(keys[i - 1], keys[i], frame)

\* Property.value
Value(pr, frame) == Type(pr.cls, GetValue(pr, frame))

\* Number of keyframes added to a property.
MaxKeys == 3

\* The frames a value is asked for, and the frames of the keyframes added.
Frames == 0..4
KeyFrames == {0, 2, 4}

MinChoices == {PyNone, PyInt(0)}
MaxChoices == {PyNone, PyInt(5)}
Defaults == {PyInt(0)}
SetValues == {PyInt(3)}
VerifyValues == {PyInt(-1), PyInt(3), PyInt(7)}
KeyframeInputs ==
    { Keyframe(f, PyInt(0), "CONSTANT") : f \in KeyFrames }
        \cup { Keyframe(f, PyInt(3), "LINEAR") : f \in KeyFrames }

\* How a call on the property ended.
Pres(op, frame, given, interp, val, exc) ==
    [op |-> op, frame |-> frame, given |-> given, interp |-> interp,
     kind |-> IF exc = NoExc THEN "return" ELSE "raise", val |-> val, exc |-> exc]

PropsInit ==
    /\ prop = NoProp
    /\ pres = NoPres
    /\ host = NoHost
    /\ kernel = NoKernel
    /\ behav = CHOOSE b \in Behaviours : b.echo /\ b.code = 0
    /\ nproc = 0
    /\ procs = <<>>
    /\ runs = <<>>
    /\ held = {}
    /\ pc = "idle"
    /\ cur = NoCur
    /\ result = NoResult
    /\ log = <<>>
    /\ firstOut = <<>>

kernelvars == <<kernel, behav, nproc, procs, runs, held, pc, cur, result, log, firstOut, host>>

\* p = BoolProp(...), IntProp(...) or FloatProp(...)
Construct(cls, min, max, default, animatable) ==
    /\ prop = NoProp
    /\ cls = "BoolProp" => min = PyNone /\ max = PyNone
    /\ LET r == NewProperty(cls, min, max, default, animatable)
       IN /\ prop' = r.prop
          /\ pres' = Pres("__init__", 0, default, "", PyNone, r.exc)
    /\ UNCHANGED kernelvars

\* p.set_value(value)
SetValue(value) ==
    /\ prop # NoProp
    /\ LET r == SetValueOutcome(prop, value)
       IN /\ prop' = IF r.ok THEN r.prop ELSE prop
          /\ pres' = Pres("set_value", 0, value, "", PyNone, r.exc)
    /\ UNCHANGED kernelvars

\* p.animate(keyframe)
Animate(keyframe) ==
    /\ prop # NoProp
    /\ Len(prop.keyframes) < MaxKeys
    /\ LET r == AnimateOutcome(prop, keyframe)
       IN /\ prop' = IF r.ok THEN r.prop ELSE prop
          /\ pres' = Pres("animate", keyframe.frame, keyframe.value, keyframe.interp,
                          PyNone, r.exc)
    /\ UNCHANGED kernelvars

\* p.verify(value)
VerifyCall(value) ==
    /\ prop # NoProp
    /\ LET r == Verify(prop, value)
       IN pres' = Pres("verify", 0, value, "", PyBool(r.val),
                       IF r.raises THEN TypeError ELSE NoExc)
    /\ UNCHANGED <<prop, kernelvars>>

\* p._get_value(frame)
GetValueCall(frame) ==
    /\ prop # NoProp
    /\ pres' = Pres("_get_value", frame, PyNone, "", GetValue(prop, frame), NoExc)
    /\ UNCHANGED <<prop, kernelvars>>

\* p.value(frame)
ValueCall(frame) ==
    /\ prop # NoProp
    /\ pres' = Pres("value", frame, PyNone, "", Value(prop, frame), NoExc)
    /\ UNCHANGED <<prop, kernelvars>>

PropsNext ==
    \/ \E cls \in PropClasses, min \in MinChoices, max \in MaxChoices,
          default \in Defaults, animatable \in BOOLEAN :
          Construct(cls, min, max, default, animatable)
    \/ \E value \in SetValues : SetValue(value)
    \/ \E keyframe \in KeyframeInputs : Animate(keyframe)
    \/ \E value \in VerifyValues : VerifyCall(value)
    \/ \E frame \in Frames : GetValueCall(frame)
    \/ \E frame \in Frames : ValueCall(frame)

SpecProps == PropsInit /\ [][PropsNext]_vars

(***************************************************************************)
(* Properties of IntProp / FloatProp range checks and of keyframes.        *)
(***************************************************************************)
\* C18: the range check of IntProp and FloatProp is inclusive on both
\* bounds: verify(value) returns true exactly when (min is absent or
\* value >= min) and (max is absent or value <= max).
C18_InclusiveBounds ==
    pres.op = "verify" /\ prop.cls \in {"IntProp", "FloatProp"} =>
        /\ pres.kind = "return"
        /\ pres.val = PyBool(/\ prop.min = PyNone \/ pres.given.n >= prop.min.n
                             /\ prop.max = PyNone \/ pres.given.n <= prop.max.n)

\* C19: a property created with animatable=False never acquires keyframes:
\* every animate on it is rejected by assertion and leaves the list empty,
\* whatever set_value calls come between, and value(frame) is the same for
\* every frame.
C19_NotAnimatable ==
    prop # NoProp =>
      (~prop.animatable =>
        /\ prop.keyframes = <<>>
        /\ pres.op = "animate" => pres.kind = "raise" /\ pres.exc = AssertionError
        /\ \A f, g \in Frames : Value(prop, f) = Value(prop, g)
        /\ pres.op = "value" => pres.val = Value(prop, 0))

\* An animate on a property that is not animatable and whose value was set
\* has been rejected.
C19_Witness ==
    /\ prop # NoProp
    /\ ~prop.animatable
    /\ prop.value # prop.default
    /\ pres.op = "animate"
    /\ pres.kind = "raise"

KeySet == { prop.keyframes[i] : i \in DOMAIN prop.keyframes }

\* The keyframes of a frame, and the nearest frames on either side.
KeysAt(f) == { k \in KeySet : k.frame = f }
Earliest == CHOOSE f \in {k.frame : k \in KeySet} : \A k \in KeySet : f <= k.frame
Latest == CHOOSE f \in {k.frame : k \in KeySet} : \A k \in KeySet : f >= k.frame
LastBefore(f) ==
    CHOOSE g \in {k.frame : k \in KeySet} :
        g < f /\ \A k \in KeySet : k.frame < f => k.frame <= g
FirstAfter(f) ==
    CHOOSE g \in {k.frame : k \in KeySet} :
        g > f /\ \A k \in KeySet : k.frame > f => k.frame >= g

\* C20: with at least two keyframes, added in any order, the value at a
\* frame at or before the earliest keyframe is the earliest keyframe's
\* value, at or after the latest the latest's, on a keyframe's frame that
\* keyframe's value, and strictly between keyframes the interpolation of the
\* last keyframe before the frame and the first one after it; with no
\* keyframe it is the set value and with one keyframe that keyframe's value.
\* Of several keyframes on one frame, "the keyframe" is one of them.
C20_GetValue ==
    pres.op = "_get_value" =>
        LET f == pres.frame
            n == Len(prop.keyframes)
        IN /\ n = 0 => pres.val = prop.value
           /\ n = 1 => pres.val = prop.keyframes[1].value
           /\ n >= 2 =>
                /\ f <= Earliest => \E k \in KeysAt(Earliest) : pres.val = k.value
                /\ f >= Latest => \E k \in KeysAt(Latest) : pres.val = k.value
                /\ KeysAt(f) # {} => \E k \in KeysAt(f) : pres.val = k.value
                /\ Earliest < f /\ f < Latest /\ KeysAt(f) = {} =>
                      \E k1 \in KeysAt(LastBefore(f)), k2 \in KeysAt(FirstAfter(f)) :
                          pres.val = Interpolate(k1, k2, f)

\* Three keyframes added out of order, and a frame between the later two
\* has been asked for.
C20_Witness ==
    /\ pres.op = "_get_value"
    /\ Len(prop.keyframes) = 3
    /\ prop.keyframes[1].frame > prop.keyframes[3].frame
    /\ prop.keyframes[3].frame > prop.keyframes[2].frame
    /\ pres.val.t = "interpolate"
    /\ pres.val.b[1] = prop.keyframes[3]

====
